---- MODULE Spec2Model ----
(***************************************************************************)
(* backbone.drupal: the user session (login / logout), the CSRF token      *)
(* cache (getCsrfToken / setCsrfToken / resetCsrfToken) and the            *)
(* Backbone.sync override that puts the token on every request.            *)
(*                                                                         *)
(* Source: src/example/app.js, lines 84-614 (the library).                 *)
(*                                                                         *)
(* Execution model: one JavaScript event loop.  A client call (login,      *)
(* logout, fetch, save) runs to completion; after that the only things     *)
(* that happen are the server handling a request and the client receiving  *)
(* a response, in any order.  Deferred callbacks run synchronously inside  *)
(* the step that resolves the deferred (jQuery 1.8 - 2.x, the jQuery of    *)
(* Backbone 1.x / Marionette 2.x which the library is written against), so *)
(* a response handler, the then-callback chained on it and the _sync call  *)
(* made in that callback are one step.                                     *)
(*                                                                         *)
(* Three specifications share the variables:                               *)
(*   Spec        the session and the token cache under login, logout,      *)
(*               fetch and save calls (no entity model is constructed);    *)
(*   EntitySpec  one entity model (Node, File, TaxonomyTerm,               *)
(*               TaxonomyVocabulary, User) under construction, set, fetch, *)
(*               toJSON, url and the conversion methods (lines 211-492);   *)
(*               the session stays as constructed;                         *)
(*   FlowSpec    NodeView.updateTitle of the sample app (lines 35-45, and  *)
(*               src/unnamed/part_000, lines 34-46): save, then fetch.     *)
(***************************************************************************)
EXTENDS Integers, Sequences, FiniteSets, Bags, TLC

\* ------------------------------------------------------------------ bounds

\* Number of top-level calls (login, logout, fetch, save) in one behaviour.
MaxOps == 3

\* ------------------------------------------------------------------ values

\* A JavaScript value as it comes off the wire: a number, a string (a
\* sequence of one-character strings), a boolean, null or
\* undefined.
IntV(n) == [k |-> "int", n |-> n, s |-> <<>>, b |-> FALSE]

StrV(s) == [k |-> "str", n |-> 0, s |-> s, b |-> FALSE]

BoolV(b) == [k |-> "bool", n |-> 0, s |-> <<>>, b |-> b]

Undefined == [k |-> "undef", n |-> 0, s |-> <<>>, b |-> FALSE]

NaN == [k |-> "nan", n |-> 0, s |-> <<>>, b |-> FALSE]

Null == [k |-> "null", n |-> 0, s |-> <<>>, b |-> FALSE]

DigitChars == <<"0", "1", "2", "3", "4", "5", "6", "7", "8", "9">>

IsDigit(c) == \E i \in 1..10 : DigitChars[i] = c

DigitVal(c) == (CHOOSE i \in 1..10 : DigitChars[i] = c) - 1

IsSpace(c) == c = " "

\* String(n) for an integer n.
RECURSIVE NatToStr(_)
NatToStr(n) ==
    IF n < 10 THEN <<DigitChars[n + 1]>>
    ELSE NatToStr(n \div 10) \o <<DigitChars[(n % 10) + 1]>>

IntToStr(n) == IF n < 0 THEN <<"-">> \o NatToStr(-n) ELSE NatToStr(n)

\* String(value), as parseInt applies it to its argument.
ToStr(v) ==
    CASE v.k = "int" -> IntToStr(v.n)
      [] v.k = "str" -> v.s
      [] v.k = "bool" -> IF v.b THEN <<"t", "r", "u", "e">>
                         ELSE <<"f", "a", "l", "s", "e">>
      [] v.k = "nan" -> <<"N", "a", "N">>
      [] v.k = "null" -> <<"n", "u", "l", "l">>
      [] OTHER -> <<"u", "n", "d", "e", "f", "i", "n", "e", "d">>

RECURSIVE SkipSpace(_)
SkipSpace(s) ==
    IF s # <<>> /\ IsSpace(Head(s)) THEN SkipSpace(Tail(s)) ELSE s

\* The longest prefix of s made of decimal digits.
RECURSIVE DigitPrefix(_)
DigitPrefix(s) ==
    IF s # <<>> /\ IsDigit(Head(s)) THEN <<Head(s)>> \o DigitPrefix(Tail(s))
    ELSE <<>>

RECURSIVE DigitsVal(_, _)
DigitsVal(s, acc) ==
    IF s = <<>> THEN acc ELSE DigitsVal(Tail(s), acc * 10 + DigitVal(Head(s)))

\* parseInt(value): leading white space is skipped, then an optional sign,
\* then the longest run of decimal digits; NaN when there is no digit.
parseInt(v) ==
    LET s0 == SkipSpace(ToStr(v))
        neg == s0 # <<>> /\ Head(s0) = "-"
        s1 == IF s0 # <<>> /\ Head(s0) \in {"-", "+"} THEN Tail(s0) ELSE s0
        ds == DigitPrefix(s1)
    IN  IF ds = <<>> THEN NaN
        ELSE IntV(IF neg THEN -DigitsVal(ds, 0) ELSE DigitsVal(ds, 0))

\* Entity.convertInteger without the branch for booleans.
convertInteger_parseOnly(v) ==
    LET p == parseInt(v) IN IF p.k = "nan" THEN IntV(0) ELSE p

\* Entity.convertInteger
convertInteger(v) ==
    IF v.k = "bool" THEN IntV(IF v.b THEN 1 ELSE 0)
    ELSE LET p == parseInt(v) IN IF p.k = "nan" THEN IntV(0) ELSE p

\* ToNumber of a string, as the loose comparison with a number applies it:
\* the whole trimmed string must be a decimal literal; "" is 0.
StrToNumber(s) ==
    LET s0 == SkipSpace(s)
        neg == s0 # <<>> /\ Head(s0) = "-"
        s1 == IF s0 # <<>> /\ Head(s0) \in {"-", "+"} THEN Tail(s0) ELSE s0
        ds == DigitPrefix(s1)
    IN  IF s0 = <<>> THEN IntV(0)
        ELSE IF ds = <<>> \/ SkipSpace(SubSeq(s1, Len(ds) + 1, Len(s1))) # <<>>
             THEN NaN
        ELSE IntV(IF neg THEN -DigitsVal(ds, 0) ELSE DigitsVal(ds, 0))

\* value != 0
LooseNotZero(v) ==
    CASE v.k = "int" -> v.n # 0
      [] v.k = "bool" -> v.b
      [] v.k = "str" -> LET x == StrToNumber(v.s) IN x.k = "nan" \/ x.n # 0
      [] OTHER -> TRUE

\* The uid of a user record as the server sends it: a JSON number or a
\* numeric string; 0 is the anonymous user.
WireUids == {IntV(0), IntV(1), StrV(<<"0">>), StrV(<<"1">>)}

\* The uid of the anonymous user on the wire.
AnonymousUids == {IntV(0), StrV(<<"0">>)}

\* ------------------------------------------------------------------- state

\* getCsrfToken.token when it is falsy: undefined at load, false after
\* resetCsrfToken.
NoToken == "false"

\* The tokens the server issues.  The library copies a token and tests it for
\* being falsy, nothing else: two values tell the latest from a stale one.
Tokens == {"tokenA", "tokenB"}

\* The (username, password) pairs login is called with.
Credentials == {"alice:secret"}

NoBody == "null"

VARIABLES
    loggedIn,      \* session.get('loggedIn')
    user,          \* session.user: its attributes (only uid is tracked)
    token,         \* getCsrfToken.token
    ops,           \* the top-level calls (login, logout, fetch, save) made so
                   \* far: a bag of records, each holding the promise handed
                   \* to the caller and the Backbone.sync call the operation
                   \* is making or made last
    lastIssued,    \* server: the token it issued last (NoToken: none yet)
    authExchange,  \* history: an authentication exchange has succeeded and
                   \* no logout has succeeded since
    afterLogout,   \* history: a logout has succeeded and login has not been
                   \* called since
    loginToken,    \* history: the token of the /user/login response that
                   \* resolved a login last (NoToken: none, or a logout has
                   \* succeeded since)
    variant,       \* the class of the entity model at hand (Node, File, ...);
                   \* "none" while no entity model has been constructed
    attributes,    \* model.attributes: attribute name -> value
    idAttribute,   \* model.idAttribute
    returned       \* the last call made on the entity model and what it
                   \* returned

sessionVars == <<loggedIn, user, token, ops, lastIssued, authExchange,
                 afterLogout, loginToken>>

entityVars == <<variant, attributes, idAttribute, returned>>

vars == <<loggedIn, user, token, ops, lastIssued, authExchange, afterLogout,
          loginToken, variant, attributes, idAttribute, returned>>

Kinds == {"login", "logout", "fetch", "save"}

Urls == {"none", "/system/connect", "/user/login", "/user/logout", "/node"}

\* Where the Backbone.sync call of an operation is:
\*   none        no sync call was made (login found the session logged in)
\*   token_sent  the POST /user/token of getCsrfToken is on its way
\*   token_ok    the server has answered it with a token, answer on its way
\*   sent        _sync has dispatched the request itself, request on its way
\*   resp_ok     the server has answered the request, answer on its way
\*   done        the promise of the sync call is resolved
\*   failed      the request has failed: the promise of the sync call is
\*               rejected
\*   no_token    the token request has failed: the promise of the sync call
\*               is rejected and _sync was never called
\* The record of a finished call keeps its outcome only: the header and the
\* payload are dropped.
\* hdr is the X-CSRF-Token header of the request while it is on its way, and
\* fetched tells whether the sync call had to post to /user/token for it.  A
\* request either fails (network or HTTP error, wrong credentials) or is
\* answered, and an answer is delivered.
\* The server handling a request that has no payload the library reads and no
\* effect on the tokens (logout, fetch, save) is one step with the delivery
\* of its response.
Phases == {"none", "token_sent", "token_ok", "sent", "resp_ok", "done", "failed",
           "no_token"}

TokenPhases == {"token_sent", "token_ok"}

NoData == [uid |-> Undefined, token |-> NoToken]

Calls == BagToSet(ops)

TypeOK ==
    /\ loggedIn \in BOOLEAN
    /\ user.uid = Undefined \/ user.uid \in {IntV(0), IntV(1)}
    /\ token \in Tokens \cup {NoToken}
    /\ lastIssued \in Tokens \cup {NoToken}
    /\ authExchange \in BOOLEAN
    /\ afterLogout \in BOOLEAN
    /\ loginToken \in Tokens \cup {NoToken}
    /\ BagCardinality(ops) <= MaxOps
    /\ \A r \in Calls :
         /\ r.kind \in Kinds
         /\ r.promise \in {"pending", "resolved", "rejected"}
         /\ r.url \in Urls
         /\ r.phase \in Phases
         /\ r.hdr \in Tokens \cup {NoToken}
         /\ r.fetched \in BOOLEAN

\* An attribute map with no attribute.
NoAttributes == [key \in {} |-> Null]

\* set called with null or undefined for the key; also the key of a call
\* that takes none.
NullKey == "(null)"

\* The record of a call on the entity model: the method, its arguments (a
\* key and a value, for the calls that take them), and what it returned: a
\* value, an attribute map (toJSON) or a string (url).
Call(method, key, arg, value, json, path) ==
    [call |-> method, key |-> key, arg |-> arg, value |-> value, json |-> json,
     path |-> path]

NoCall == Call("none", NullKey, Undefined, Undefined, NoAttributes, "")

\* new Backbone.Drupal.Model.Session(): defaults {loggedIn: false},
\* initialize creates an empty User; the token cache is unset.  No entity
\* model has been constructed: idAttribute is the one of Backbone.Model.
Init ==
    /\ loggedIn = FALSE
    /\ user = [uid |-> Undefined]
    /\ token = NoToken
    /\ ops = EmptyBag
    /\ lastIssued = NoToken
    /\ authExchange = FALSE
    /\ afterLogout = FALSE
    /\ loginToken = NoToken
    /\ variant = "none"
    /\ attributes = NoAttributes
    /\ idAttribute = "id"
    /\ returned = NoCall

\* -------------------------------------------------------------- token store

\* getCsrfToken that never finds the cache filled and always fetches.
CacheHit_never == FALSE

\* getCsrfToken: `if (!getCsrfToken.token)` is false, the cached token is
\* returned in an already resolved promise.
CacheHit == token # NoToken

\* getCsrfToken, as Backbone.sync calls it: the token it finds in the cache
\* (NoToken when `!getCsrfToken.token`, and a token request is made).
getCsrfToken == IF CacheHit THEN token ELSE NoToken

\* setCsrfToken(t): the value of getCsrfToken.token afterwards.
setCsrfToken(t) == t

\* resetCsrfToken that leaves the cached token in place.
resetCsrfToken_keep == token

\* resetCsrfToken(): the value of getCsrfToken.token afterwards.
resetCsrfToken == NoToken

\* -------------------------------------------------------------------- sync

\* beforeSend that reads the cache as it was when the callback was built,
\* not the token it was handed.
beforeSend_stale(resolved) == token

\* options.beforeSend of Backbone.sync: the X-CSRF-Token header it sets, given
\* the token the promise of getCsrfToken resolved with.
beforeSend(resolved) == resolved

\* Backbone.sync(method, model, options) made for operation r, called while
\* getCsrfToken finds `cached`.  With a cached token the then-callback runs at
\* once and _sync dispatches the request; with an empty cache getCsrfToken
\* posts to /user/token and the call waits.
sync(r, url, body, cached) ==
    IF cached # NoToken
    THEN [r EXCEPT !.url = url, !.body = body, !.phase = "sent",
                   !.hdr = beforeSend(cached), !.fetched = FALSE, !.data = NoData]
    ELSE [r EXCEPT !.url = url, !.body = body, !.phase = "token_sent",
                   !.hdr = NoToken, !.fetched = TRUE, !.data = NoData]

\* Session.doPost(postUrl, postData)
doPost(r, url, body) == sync(r, url, body, getCsrfToken)

\* The then-callback of Backbone.sync, run when the token request of r has
\* resolved with token t: the header is set from t and _sync dispatches.
syncThen(r, t) ==
    [r EXCEPT !.phase = "sent", !.hdr = beforeSend(t), !.data = NoData]

\* The promise a top-level call of this kind hands to its caller, when a
\* request made for it fails: logout, fetch and save return the promise of
\* the sync call itself; login returns its own deferred, which only the
\* done-callbacks settle.
promiseAfterFail(kind) == IF kind = "login" THEN "pending" ELSE "rejected"

\* A sync that goes on to _sync whether or not the token arrived.
syncTokenRejected_dispatch(r) ==
    [r EXCEPT !.phase = "sent", !.hdr = NoToken, !.data = NoData]

\* The token request of r was rejected: the then-callback is skipped and the
\* promise of the sync call is rejected; _sync is not called.
syncTokenRejected(r) ==
    [r EXCEPT !.phase = "no_token", !.fetched = FALSE,
              !.promise = promiseAfterFail(r.kind)]

\* The record of r once its sync call has finished with this outcome.
Finished(r, phase) ==
    [r EXCEPT !.phase = phase, !.hdr = NoToken, !.fetched = FALSE, !.data = NoData]

Resolved(r, value) == [r EXCEPT !.promise = "resolved", !.value = value]

\* ----------------------------------------------------------------- actions

NewOp(kind, cred) ==
    [kind |-> kind, cred |-> cred, promise |-> "pending", value |-> "none",
     url |-> "none", body |-> NoBody, phase |-> "none", hdr |-> NoToken,
     fetched |-> FALSE, data |-> NoData]

Add(r) == ops (+) SetToBag({r})

Replace(r, r2) == (ops (-) SetToBag({r})) (+) SetToBag({r2})

\* login that does not look at the flag and always contacts the server.
AlreadyLoggedIn_never == FALSE

\* Session.login, `if (this.loggedIn())`.
AlreadyLoggedIn == loggedIn

\* Session.login(username, password).
Login(cred) ==
    /\ BagCardinality(ops) < MaxOps
    /\ afterLogout' = FALSE
    /\ IF AlreadyLoggedIn
       THEN \* return deferred.resolve(this.user).promise()
            ops' = Add(Resolved(NewOp("login", cred), "user"))
       ELSE \* this.doPost('/system/connect')
            ops' = Add(doPost(NewOp("login", cred), "/system/connect", NoBody))
    /\ UNCHANGED <<loggedIn, user, token, lastIssued, authExchange, loginToken>>
    /\ UNCHANGED entityVars

\* Session.logout(): this.doPost('/user/logout').
Logout ==
    /\ BagCardinality(ops) < MaxOps
    /\ ops' = Add(doPost(NewOp("logout", NoBody), "/user/logout", NoBody))
    /\ UNCHANGED <<loggedIn, user, token, lastIssued, authExchange, afterLogout, loginToken>>
    /\ UNCHANGED entityVars

\* fetch() of an entity model or collection: Backbone.sync('read', ...).
Fetch ==
    /\ BagCardinality(ops) < MaxOps
    /\ ops' = Add(sync(NewOp("fetch", NoBody), "/node", NoBody, getCsrfToken))
    /\ UNCHANGED <<loggedIn, user, token, lastIssued, authExchange, afterLogout, loginToken>>
    /\ UNCHANGED entityVars

\* save() of an entity model: Backbone.sync('create' or 'update', ...).
Save ==
    /\ BagCardinality(ops) < MaxOps
    /\ ops' = Add(sync(NewOp("save", NoBody), "/node", "entity", getCsrfToken))
    /\ UNCHANGED <<loggedIn, user, token, lastIssued, authExchange, afterLogout, loginToken>>
    /\ UNCHANGED entityVars

\* The server answers the POST /user/token made for r with token t.
TokenServe(r, t) ==
    /\ r.phase = "token_sent"
    /\ ops' = Replace(r, [r EXCEPT !.phase = "token_ok", !.data.token = t])
    /\ lastIssued' = t
    /\ UNCHANGED <<loggedIn, user, token, authExchange, afterLogout, loginToken>>
    /\ UNCHANGED entityVars

\* getCsrfToken's then-callback: setCsrfToken(data.token); return data.token;
\* then the then-callback of Backbone.sync with that token.
TokenDone(r) ==
    /\ r.phase = "token_ok"
    /\ token' = setCsrfToken(r.data.token)
    /\ ops' = Replace(r, syncThen(r, r.data.token))
    /\ UNCHANGED <<loggedIn, user, lastIssued, authExchange, afterLogout, loginToken>>
    /\ UNCHANGED entityVars

\* The POST /user/token made for r fails (network or HTTP error): the token
\* request is rejected, and so is the sync call.
TokenFail(r) ==
    /\ r.phase = "token_sent"
    /\ ops' = Replace(r, syncTokenRejected(r))
    /\ UNCHANGED <<loggedIn, user, token, lastIssued, authExchange, afterLogout, loginToken>>
    /\ UNCHANGED entityVars

\* The comparison written with the strict operator: data.user.uid !== 0.
NonAnonymous_strict(uid) == ~(uid.k = "int" /\ uid.n = 0)

\* Session.login, `if (data.user.uid != 0)`.
NonAnonymous(uid) == LooseNotZero(uid)

\* session.user.set(data.user): Entity.set runs cleanInput, which converts
\* the id field with convertInteger.
userSet(uid) == [user EXCEPT !.uid = convertInteger(uid)]

\* The server answers the POST /system/connect of r with the user of the
\* server-side session.
ConnectServe(r, uid) ==
    /\ r.url = "/system/connect"
    /\ r.phase = "sent"
    /\ ops' = Replace(r, [r EXCEPT !.phase = "resp_ok", !.hdr = NoToken,
                                   !.fetched = FALSE, !.data.uid = uid])
    /\ UNCHANGED <<loggedIn, user, token, lastIssued, authExchange, afterLogout, loginToken>>
    /\ UNCHANGED entityVars

\* The done-callback of login's POST /system/connect.
ConnectDone(r) ==
    /\ r.url = "/system/connect"
    /\ r.phase = "resp_ok"
    /\ loggedIn' = TRUE
    /\ IF NonAnonymous(r.data.uid)
       THEN /\ user' = userSet(r.data.uid)
            /\ ops' = Replace(r, Resolved(Finished(r, "done"), "user"))
            /\ authExchange' = TRUE
       ELSE /\ ops' = Replace(r, doPost(r, "/user/login", r.cred))
            /\ UNCHANGED <<user, authExchange>>
    /\ UNCHANGED <<token, lastIssued, afterLogout, loginToken>>
    /\ UNCHANGED entityVars

\* The server accepts the credentials of the POST /user/login of r and
\* answers with the user and a new token.
LoginServe(r, uid, t) ==
    /\ r.url = "/user/login"
    /\ r.phase = "sent"
    /\ uid \notin AnonymousUids
    /\ ops' = Replace(r, [r EXCEPT !.phase = "resp_ok", !.hdr = NoToken,
                                   !.fetched = FALSE,
                                   !.data = [uid |-> uid, token |-> t]])
    /\ lastIssued' = t
    /\ UNCHANGED <<loggedIn, user, token, authExchange, afterLogout, loginToken>>
    /\ UNCHANGED entityVars

\* The done-callback of login's POST /user/login.
LoginDone(r) ==
    /\ r.url = "/user/login"
    /\ r.phase = "resp_ok"
    /\ token' = setCsrfToken(r.data.token)
    /\ user' = userSet(r.data.uid)
    /\ ops' = Replace(r, Resolved(Finished(r, "done"), "user"))
    /\ authExchange' = TRUE
    /\ loginToken' = r.data.token
    /\ UNCHANGED <<loggedIn, lastIssued, afterLogout>>
    /\ UNCHANGED entityVars

\* The done-callback of logout's POST /user/logout.
LogoutDone(r) ==
    /\ r.url = "/user/logout"
    /\ r.phase = "sent"
    /\ token' = resetCsrfToken
    /\ loggedIn' = FALSE
    /\ ops' = Replace(r, Resolved(Finished(r, "done"), "response"))
    /\ authExchange' = FALSE
    /\ afterLogout' = TRUE
    /\ loginToken' = NoToken
    /\ UNCHANGED <<user, lastIssued>>
    /\ UNCHANGED entityVars

\* The request of a fetch or save succeeds.
EntityDone(r) ==
    /\ r.url = "/node"
    /\ r.phase = "sent"
    /\ ops' = Replace(r, Resolved(Finished(r, "done"), "response"))
    /\ UNCHANGED <<loggedIn, user, token, lastIssued, authExchange, afterLogout, loginToken>>
    /\ UNCHANGED entityVars

\* The request of r fails (network or HTTP error, wrong credentials): the
\* promise of the sync call is rejected.  No fail-callback is attached
\* anywhere in the library.
RequestFail(r) ==
    /\ r.phase = "sent"
    /\ ops' = Replace(r, [Finished(r, "failed") EXCEPT
                             !.promise = promiseAfterFail(r.kind)])
    /\ UNCHANGED <<loggedIn, user, token, lastIssued, authExchange, afterLogout, loginToken>>
    /\ UNCHANGED entityVars

Next ==
    \/ \E cred \in Credentials : Login(cred)
    \/ Logout
    \/ Fetch
    \/ Save
    \/ \E r \in Calls, t \in Tokens : TokenServe(r, t)
    \/ \E r \in Calls : TokenDone(r)
    \/ \E r \in Calls : TokenFail(r)
    \/ \E r \in Calls, uid \in WireUids : ConnectServe(r, uid)
    \/ \E r \in Calls : ConnectDone(r)
    \/ \E r \in Calls, uid \in WireUids, t \in Tokens : LoginServe(r, uid, t)
    \/ \E r \in Calls : LoginDone(r)
    \/ \E r \in Calls : LogoutDone(r)
    \/ \E r \in Calls : EntityDone(r)
    \/ \E r \in Calls : RequestFail(r)

Spec == Init /\ [][Next]_vars

\* ----------------------------------------------------------- entity models

\* typeof value === 'number' (NaN is a number).
IsNumber(v) == v.k \in {"int", "nan"}

\* Entity.convertBoolInput
convertBoolInput(v) ==
    IF v.k = "bool" THEN v
    ELSE LET p == parseInt(v) IN BoolV(p.k # "nan" /\ p.n > 0)

\* Entity.convertBoolOutput that sends false for a value that is not true.
convertBoolOutput_false(v) ==
    IF IsNumber(v) THEN BoolV(v.k = "int" /\ v.n > 0)
    ELSE IF v.k = "bool" THEN BoolV(v.b)
    ELSE BoolV(v.k = "str" /\ v.s \in {<<"1">>, <<"t", "r", "u", "e">>})

\* Entity.convertBoolOutput: true, or null for a value Services is not to
\* be sent.
convertBoolOutput(v) ==
    IF IsNumber(v) THEN (IF v.k = "int" /\ v.n > 0 THEN BoolV(TRUE) ELSE Null)
    ELSE IF v.k = "bool" THEN (IF v.b THEN BoolV(TRUE) ELSE Null)
    ELSE IF v.k = "str" /\ v.s \in {<<"1">>, <<"t", "r", "u", "e">>}
         THEN BoolV(TRUE)
    ELSE Null

\* The entity classes of the library.
Variants == {"Node", "File", "TaxonomyTerm", "TaxonomyVocabulary", "User"}

\* The static properties of each class.
idKey(v) ==
    CASE v = "Node" -> "nid"
      [] v = "File" -> "fid"
      [] v = "TaxonomyTerm" -> "tid"
      [] v = "TaxonomyVocabulary" -> "vid"
      [] v = "User" -> "uid"

entityType(v) ==
    CASE v = "Node" -> "node"
      [] v = "File" -> "file"
      [] v = "TaxonomyTerm" -> "taxonomy_term"
      [] v = "TaxonomyVocabulary" -> "taxonomy_vocabulary"
      [] v = "User" -> "user"

booleanFields(v) ==
    CASE v = "Node" -> {"status", "sticky", "promote"}
      [] OTHER -> {}

integerFields(v) ==
    CASE v = "Node" ->
             {"changed", "cid", "comment", "comment_count", "created",
              "last_comment_timestamp", "last_comment_uid",
              "revision_timestamp", "revision_uid", "tnid", "translate",
              "uid", "vid"}
      [] v = "File" -> {"filesize", "status", "timestamp", "uid"}
      [] v = "TaxonomyTerm" -> {"vid", "weight"}
      [] v = "TaxonomyVocabulary" -> {"hierarchy", "weight"}
      [] v = "User" -> {"access", "created", "login", "status"}

\* File.fileContents and File.imageStyles, the defaults of the class.
fileContents == 0

imageStyles == 1

\* Entity.cleanInput that leaves the id field as it comes.
cleanInput_keepId(v, values) ==
    LET ints == [key \in DOMAIN values |->
                    IF key \in integerFields(v) THEN convertInteger(values[key])
                    ELSE values[key]]
    IN  [key \in DOMAIN values |->
            IF key \in booleanFields(v) THEN convertBoolInput(ints[key])
            ELSE ints[key]]

\* Entity.cleanInput(values): the integer fields, then the boolean fields,
\* then the id field, each one only if the map has it.
cleanInput(v, values) ==
    LET ints == [key \in DOMAIN values |->
                    IF key \in integerFields(v) THEN convertInteger(values[key])
                    ELSE values[key]]
        bools == [key \in DOMAIN values |->
                    IF key \in booleanFields(v) THEN convertBoolInput(ints[key])
                    ELSE ints[key]]
    IN  [key \in DOMAIN values |->
            IF key = idKey(v) THEN convertInteger(bools[key]) ELSE bools[key]]

\* Entity.set with a map: cleanInput, then Backbone.Model.prototype.set, which
\* writes every attribute of the cleaned map into model.attributes.
set(v, current, attrs) ==
    LET cleaned == cleanInput(v, attrs)
    IN  [key \in DOMAIN current \cup DOMAIN cleaned |->
            IF key \in DOMAIN cleaned THEN cleaned[key] ELSE current[key]]

\* Entity.toJSON: a copy of the attributes with the integer fields converted
\* by convertInteger and the boolean fields by convertBoolOutput; rdf_mapping
\* is left out.
toJSON(v, current) ==
    LET ints == [key \in DOMAIN current |->
                    IF key \in integerFields(v) THEN convertInteger(current[key])
                    ELSE current[key]]
    IN  [key \in DOMAIN current \ {"rdf_mapping"} |->
            IF key \in booleanFields(v) THEN convertBoolOutput(ints[key])
            ELSE ints[key]]

\* model.get(key): undefined for an attribute the model does not have.
get(current, key) == IF key \in DOMAIN current THEN current[key] ELSE Undefined

\* model.isNew(), as Backbone.Model defines it (1.1.1 and later, the Backbone
\* with which a model built from the attributes of a fetched collection, as
\* in the sample app, is not new): !this.has(this.idAttribute), and has(attr)
\* is get(attr) != null.
isNew(current, idAttr) == get(current, idAttr).k \in {"undef", "null"}

\* The characters encodeURIComponent leaves as they are, among those a
\* value of the model can hold.
Unreserved ==
    {"0", "1", "2", "3", "4", "5", "6", "7", "8", "9", "-", "a", "b", "c",
     "d", "e", "f", "i", "l", "n", "r", "s", "t", "u", "N"}

\* The strings of a sequence, put one after the other.
RECURSIVE Join(_)
Join(s) == IF s = <<>> THEN "" ELSE Head(s) \o Join(Tail(s))

\* encodeURIComponent(value): the string of the value, every character
\* outside the unreserved ones replaced by its percent escape.
encodeURIComponent(value) ==
    LET s == ToStr(value)
        Escape(c) == CASE c \in Unreserved -> c
                       [] c = " " -> "%20"
                       [] c = "+" -> "%2B"
    IN  Join([i \in 1..Len(s) |-> Escape(s[i])])

\* Entity.url
Entity_url(v, current, idAttr) ==
    LET root == "/" \o entityType(v)
    IN  IF isNew(current, idAttr) THEN root
        ELSE root \o "/" \o encodeURIComponent(get(current, idKey(v)))

\* File.url without the query string.
File_url_bare(v, current, idAttr) == Entity_url(v, current, idAttr)

\* File.url: Entity.url, and for a model that is not new the query string
\* made of fileContents and imageStyles.
File_url(v, current, idAttr) ==
    LET url0 == Entity_url(v, current, idAttr)
    IN  IF isNew(current, idAttr) THEN url0
        ELSE url0 \o "?file_contents="
                  \o Join(ToStr(convertInteger(IntV(fileContents))))
                  \o "&image_styles="
                  \o Join(ToStr(convertInteger(IntV(imageStyles))))

\* model.url(): File overrides the method of Entity.
url(v, current, idAttr) ==
    IF v = "File" THEN File_url(v, current, idAttr)
    ELSE Entity_url(v, current, idAttr)

\* The attributes the calls of the model name: the id field of the class and
\* status, which is a boolean field of Node, an integer field of File and
\* User, and a field of no declared type of the taxonomy classes.
FieldsOf(v) == {idKey(v), "status"}

\* The values set is called with: booleans, integers, numeric strings,
\* strings that are no number, null.
InputValues ==
    {BoolV(TRUE), BoolV(FALSE), IntV(0), IntV(1), IntV(7), IntV(-1),
     StrV(<<"4", "2">>), StrV(<<"1">>), StrV(<<"0">>),
     StrV(<<"t", "r", "u", "e">>), StrV(<<"a", "b", "c">>), Null}

\* The values of the maps set and the constructor are called with: one of
\* each kind.
BatchValues ==
    {BoolV(TRUE), IntV(0), IntV(7), StrV(<<"4", "2">>), StrV(<<"a", "b", "c">>),
     Null}

\* The maps set and the constructor are called with.
Batches(v) == UNION {[fields -> BatchValues] : fields \in SUBSET FieldsOf(v)}

\* The values of an entity as Services sends them: numbers and numeric
\* strings.
WireValues == {IntV(7), StrV(<<"4", "2">>), StrV(<<"1">>), StrV(<<"0">>)}

\* The entities a fetch is answered with.
Responses(v) == [FieldsOf(v) -> WireValues]

\* An initialize that leaves idAttribute as Backbone.Model has it.
initialize_default(v) == "id"

\* Entity.initialize
initialize(v) == idKey(v)

\* new Model(attrs): the constructor of Backbone.Model calls set(attrs), then
\* initialize.
EntityInit ==
    /\ loggedIn = FALSE
    /\ user = [uid |-> Undefined]
    /\ token = NoToken
    /\ ops = EmptyBag
    /\ lastIssued = NoToken
    /\ authExchange = FALSE
    /\ afterLogout = FALSE
    /\ loginToken = NoToken
    /\ \E v \in Variants : \E attrs \in Batches(v) :
         /\ variant = v
         /\ attributes = set(v, NoAttributes, attrs)
         /\ idAttribute = initialize(v)
         /\ returned = Call("new", NullKey, Undefined, Undefined, NoAttributes, "")

\* model.set(key, val)
SetKeyVal(key, val) ==
    /\ attributes' = IF key = NullKey THEN attributes
                     ELSE set(variant, attributes, [k \in {key} |-> val])
    /\ returned' = Call("set", key, val, Undefined, NoAttributes, "")
    /\ UNCHANGED <<variant, idAttribute>>
    /\ UNCHANGED sessionVars

\* model.set(attrs)
SetBatch(attrs) ==
    /\ attributes' = set(variant, attributes, attrs)
    /\ returned' = Call("set", NullKey, Undefined, Undefined, attrs, "")
    /\ UNCHANGED <<variant, idAttribute>>
    /\ UNCHANGED sessionVars

\* The success callback of model.fetch(): Backbone sets the parsed response
\* on the model, through Entity.set.
Hydrate(resp) ==
    /\ attributes' = set(variant, attributes, resp)
    /\ returned' = Call("fetch", NullKey, Undefined, Undefined, NoAttributes, "")
    /\ UNCHANGED <<variant, idAttribute>>
    /\ UNCHANGED sessionVars

\* model.toJSON()
ToJSON ==
    /\ returned' = Call("toJSON", NullKey, Undefined, Undefined,
                        toJSON(variant, attributes), "")
    /\ UNCHANGED <<variant, attributes, idAttribute>>
    /\ UNCHANGED sessionVars

\* model.url()
Url ==
    /\ returned' = Call("url", NullKey, Undefined, Undefined, NoAttributes,
                        url(variant, attributes, idAttribute))
    /\ UNCHANGED <<variant, attributes, idAttribute>>
    /\ UNCHANGED sessionVars

\* model.convertInteger(value)
ConvertInteger(value) ==
    /\ returned' = Call("convertInteger", NullKey, value, convertInteger(value),
                        NoAttributes, "")
    /\ UNCHANGED <<variant, attributes, idAttribute>>
    /\ UNCHANGED sessionVars

\* model.convertBoolInput(value)
ConvertBoolInput(value) ==
    /\ returned' = Call("convertBoolInput", NullKey, value, convertBoolInput(value),
                        NoAttributes, "")
    /\ UNCHANGED <<variant, attributes, idAttribute>>
    /\ UNCHANGED sessionVars

\* model.convertBoolOutput(value)
ConvertBoolOutput(value) ==
    /\ returned' = Call("convertBoolOutput", NullKey, value, convertBoolOutput(value),
                        NoAttributes, "")
    /\ UNCHANGED <<variant, attributes, idAttribute>>
    /\ UNCHANGED sessionVars

EntityNext ==
    \/ \E key \in FieldsOf(variant) \cup {NullKey}, val \in InputValues :
          SetKeyVal(key, val)
    \/ \E attrs \in Batches(variant) : SetBatch(attrs)
    \/ \E resp \in Responses(variant) : Hydrate(resp)
    \/ ToJSON
    \/ Url
    \/ \E value \in InputValues : ConvertInteger(value)
    \/ \E value \in InputValues : ConvertBoolInput(value)
    \/ \E value \in InputValues : ConvertBoolOutput(value)

\* An entity model of any class, constructed with any attributes, and the
\* calls made on it.
EntitySpec == EntityInit /\ [][EntityNext]_vars

\* ------------------------------------------------------- title-update flow

\* The nids of the nodes shown in the list of the sample app.
NodeIds == {1, 2}

\* The url of the Node with this nid: the model of a row of the list.
NodeUrl(nid) ==
    url("Node", set("Node", NoAttributes, [key \in {"nid"} |-> IntV(nid)]),
        initialize("Node"))

NodeUrls == {NodeUrl(nid) : nid \in NodeIds}

\* An updateTitle that fetches at once, without waiting for the save.
updateTitle_eager(url0) ==
    SetToBag({sync(NewOp("save", NoBody), url0, "entity", getCsrfToken)})
        (+) SetToBag({sync(NewOp("fetch", NoBody), url0, NoBody, getCsrfToken)})

\* NodeView.updateTitle: the sync calls the handler itself makes, for the
\* model with this url: this.model.save().  (The title it sets on the model
\* before goes into the body of the save; no request depends on it.)
updateTitle(url0) ==
    SetToBag({sync(NewOp("save", NoBody), url0, "entity", getCsrfToken)})

\* A click on a.save of the row of node nid.
UpdateTitle(nid) ==
    /\ BagCardinality(ops) < MaxOps
    /\ ops' = ops (+) updateTitle(NodeUrl(nid))
    /\ UNCHANGED <<loggedIn, user, token, lastIssued, authExchange, afterLogout,
                   loginToken>>
    /\ UNCHANGED entityVars

\* The save of r succeeds: its promise is resolved and the done-callback of
\* updateTitle runs, which calls self.model.fetch().
SaveDone(r) ==
    /\ r.kind = "save"
    /\ r.url \in NodeUrls
    /\ r.phase = "sent"
    /\ ops' = Replace(r, Resolved(Finished(r, "done"), "response"))
                 (+) SetToBag({sync(NewOp("fetch", NoBody), r.url, NoBody,
                                    getCsrfToken)})
    /\ UNCHANGED <<loggedIn, user, token, lastIssued, authExchange, afterLogout,
                   loginToken>>
    /\ UNCHANGED entityVars

\* The fetch of r succeeds: its done-callback shows the message.
FetchDone(r) ==
    /\ r.kind = "fetch"
    /\ r.url \in NodeUrls
    /\ r.phase = "sent"
    /\ ops' = Replace(r, Resolved(Finished(r, "done"), "response"))
    /\ UNCHANGED <<loggedIn, user, token, lastIssued, authExchange, afterLogout,
                   loginToken>>
    /\ UNCHANGED entityVars

\* The title-update flow of the sample app: clicks on a.save, the requests
\* they lead to, and logouts, which empty the token cache between them.
FlowNext ==
    \/ \E nid \in NodeIds : UpdateTitle(nid)
    \/ Logout
    \/ \E r \in Calls, t \in Tokens : TokenServe(r, t)
    \/ \E r \in Calls : TokenDone(r)
    \/ \E r \in Calls : TokenFail(r)
    \/ \E r \in Calls : SaveDone(r)
    \/ \E r \in Calls : FetchDone(r)
    \/ \E r \in Calls : LogoutDone(r)
    \/ \E r \in Calls : RequestFail(r)

FlowSpec == Init /\ [][FlowNext]_vars

\* ------------------------------------------------------------- properties

\* In a step: a record r2 appears, a record r disappears.  Every step of an
\* operation replaces its record by the next one.
New(r2) == CopiesIn(r2, ops') > CopiesIn(r2, ops)

Gone(r) == CopiesIn(r, ops) > CopiesIn(r, ops')

Calls2 == BagToSet(ops')

\* The number of operations whose sync call is waiting for its token request.
TokenRequestsInFlight ==
    BagCardinality([r \in {x \in Calls : x.phase \in TokenPhases} |-> ops[r]])

\* C1: loggedIn is true if and only if an authentication exchange has
\* succeeded (connect returned a non-anonymous user, or the POST to
\* /user/login succeeded) and session.user holds a uid other than 0; in
\* particular not while the POST to /user/login is still outstanding.
C1_LoggedInIffAuthenticated ==
    loggedIn <=> (authExchange /\ user.uid.k = "int" /\ user.uid.n # 0)

\* C2: while the cache is empty and no token response has arrived, all sync
\* calls share one request to /user/token: at most one is in flight.
C2_SingleFlight == TokenRequestsInFlight <= 1

\* The step is a call of Session.login, and r2 the record it adds.
LoginCalled(r2) ==
    /\ r2.kind = "login"
    /\ New(r2)
    /\ BagCardinality(ops') = BagCardinality(ops) + 1

\* C3: the first login called after a logout has succeeded finds the token
\* cache empty and posts to /user/token before its /system/connect request,
\* whatever other requests and token responses were outstanding when the
\* logout completed.
C3_FreshTokenAfterLogout ==
    [][\A r2 \in Calls2 :
          (afterLogout /\ LoginCalled(r2)) =>
              (r2.url = "/system/connect" /\ r2.phase = "token_sent")]_vars

\* C4: login called while loggedIn is true makes no request (no token,
\* connect or login request: no sync call at all), changes nothing of the
\* session and the token cache, and returns a promise already resolved with
\* session.user.
C4_LoginWhileLoggedIn ==
    [][\A r2 \in Calls2 :
          (loggedIn /\ LoginCalled(r2)) =>
              /\ r2.url = "none" /\ r2.phase = "none" /\ ~r2.fetched
              /\ r2.promise = "resolved" /\ r2.value = "user"
              /\ ops' = ops (+) SetToBag({r2})
              /\ UNCHANGED <<loggedIn, user, token, lastIssued>>]_vars

\* A login has returned at once while the session is logged in.
C4_Witness ==
    /\ loggedIn
    /\ \E r \in Calls :
         r.kind = "login" /\ r.phase = "none" /\ r.promise = "resolved"

\* C5: a request is handed to the transport only once getCsrfToken has
\* resolved (the cache held a token, or the token response of this very call
\* has just arrived), and its X-CSRF-Token header is the token the cache
\* holds at that moment.
C5_HeaderIsCachedToken ==
    [][\A r2 \in Calls2 :
          (r2.phase = "sent" /\ New(r2)) =>
              /\ r2.hdr \in Tokens
              /\ r2.hdr = token'
              /\ \/ token # NoToken /\ ~r2.fetched
                 \/ \E r \in Calls :
                      /\ Gone(r) /\ r.phase = "token_ok"
                      /\ r.data.token = r2.hdr /\ r2.fetched]_vars

\* A request is on its way whose token was fetched for it, and one that took
\* the token from the cache; both carry the cached token.
C5_Witness ==
    \E r1, r2 \in Calls :
        /\ r1.phase = "sent" /\ r1.fetched /\ r1.hdr = token
        /\ r2.phase = "sent" /\ ~r2.fetched /\ r2.hdr = token

TokenArrives == \E r \in Calls : r.phase = "token_ok" /\ Gone(r)

\* C7: getCsrfToken with a token in the cache makes no request and resolves
\* with the cached token, leaving the cache as it is; with an empty cache it
\* makes one request to /user/token, and when the answer arrives the token
\* is stored in the cache and the call goes on with it.
C7_CachedTokenIsReused ==
    [][\A r2 \in Calls2 :
          /\ (r2.phase = "token_sent" /\ New(r2)) => token = NoToken
          /\ (r2.phase = "sent" /\ New(r2) /\ ~TokenArrives) =>
                 /\ token # NoToken
                 /\ ~r2.fetched /\ r2.hdr = token /\ token' = token
          /\ \A r \in Calls :
                 (r.phase = "token_ok" /\ Gone(r) /\ New(r2)) =>
                     /\ token' = r.data.token
                     /\ r2.phase = "sent" /\ r2.hdr = r.data.token]_vars

\* One call has fetched the token and is done; a later call is on its way
\* with the cached token, and no token request was made for it.
C7_Witness ==
    \E r1, r2 \in Calls :
        /\ r1.phase = "done"
        /\ r2.phase = "sent" /\ ~r2.fetched /\ r2.hdr = token
        /\ \A r \in Calls : r \in {r1, r2} /\ CopiesIn(r, ops) = 1

\* An issued token is still on its way to the client.
TokenOnItsWay ==
    \E r \in Calls :
        \/ r.phase = "token_ok"
        \/ r.url = "/user/login" /\ r.phase = "resp_ok"

\* C8: the token cache is empty or holds the token the server issued last
\* (in a /user/token or a /user/login response).  It is stated for the states
\* in which every issued token has been delivered, so that a token that is
\* merely still on its way does not count against the claim.
C8_CacheHoldsLastIssued ==
    ~TokenOnItsWay => (token = NoToken \/ token = lastIssued)

\* C9: when a request made for a top-level call (its token request or the
\* request itself) has failed, the promise the call returned is rejected.
C9_FailureRejectsPromise ==
    \A r \in Calls : r.phase \in {"failed", "no_token"} => r.promise = "rejected"

\* The uid 0 of the anonymous user, as a number or as a string.
IsUidZero(v) == v \in AnonymousUids

\* The number a uid of the wire stands for.
UidNumber(v) == IF v.k = "int" THEN v.n ELSE IF v.s = <<"0">> THEN 0 ELSE 1

\* C10: when the connect response of a login carries a uid other than 0, the
\* session is logged in with that user, the login promise is resolved and
\* the operation makes no further request, now or later; a request to
\* /user/login is made only in the step that receives a connect response with
\* uid 0, and it carries the credentials login was called with.
C10_ConnectDecidesLogin ==
    [][/\ \A r \in Calls, r2 \in Calls2 :
             (r.url = "/system/connect" /\ r.phase = "resp_ok" /\ Gone(r) /\ New(r2)) =>
                 IF IsUidZero(r.data.uid)
                 THEN /\ r2.url = "/user/login" /\ r2.body = r.cred
                      /\ r2.phase \in {"token_sent", "sent"}
                 ELSE /\ loggedIn'
                      /\ user'.uid = IntV(UidNumber(r.data.uid))
                      /\ r2.url = "/system/connect" /\ r2.phase = "done"
                      /\ r2.promise = "resolved" /\ r2.value = "user"
       /\ \A r2 \in Calls2 :
             (r2.url = "/user/login" /\ New(r2) /\ r2.phase \in {"token_sent", "sent"}
                /\ ~\E r \in Calls : r.url = "/user/login" /\ Gone(r)) =>
                 \E r \in Calls :
                     /\ r.url = "/system/connect" /\ r.phase = "resp_ok" /\ Gone(r)
                     /\ IsUidZero(r.data.uid)
       /\ \A r \in Calls : r.phase = "done" => ~Gone(r)]_vars

\* One login was resolved by its connect response (user 1), and another one
\* has posted the credentials after an anonymous connect response.
C10_Witness ==
    /\ loggedIn /\ user.uid = IntV(1)
    /\ \E r1, r2 \in Calls :
         /\ r1.kind = "login" /\ r1.url = "/system/connect" /\ r1.phase = "done"
         /\ r1.promise = "resolved"
         /\ r2.url = "/user/login" /\ r2.phase = "sent" /\ r2.body \in Credentials

\* Session.logout has not been called at all.
NoLogoutCalled == \A r \in Calls : r.kind # "logout"

\* C11: when login resolves through the credential path, the token cache
\* holds the token of the /user/login response, and as long as no logout is
\* made, a sync call made afterwards takes that token from the cache and puts
\* it on its request.
C11_LoginTokenIsInjected ==
    [][/\ \A r \in Calls :
             (r.url = "/user/login" /\ r.phase = "resp_ok" /\ Gone(r)) =>
                 token' = r.data.token
       /\ \A r2 \in Calls2 :
             (/\ loginToken # NoToken /\ NoLogoutCalled
              /\ New(r2) /\ r2.phase \in {"sent", "token_sent"}
              /\ ~TokenArrives) =>
                 (r2.phase = "sent" /\ r2.hdr = loginToken)]_vars

\* C12: the step in which a logout succeeds empties the token cache, sets
\* loggedIn to false, resolves the promise of the logout and leaves the
\* attributes of session.user as they were.
C12_LogoutKeepsUser ==
    [][\A r \in Calls, r2 \in Calls2 :
          (/\ r.url = "/user/logout" /\ r.phase = "sent" /\ Gone(r)
           /\ New(r2) /\ r2.phase = "done") =>
              /\ token' = NoToken
              /\ loggedIn' = FALSE
              /\ user' = user
              /\ r2.promise = "resolved"]_vars

\* A logout has succeeded after a login: the session is anonymous, the cache
\* is empty and session.user still holds the uid of the user who was logged
\* in.
C12_Witness ==
    /\ ~loggedIn /\ token = NoToken /\ user.uid = IntV(1)
    /\ \E r \in Calls :
         r.kind = "logout" /\ r.phase = "done" /\ r.promise = "resolved"

\* Input that is no number and no boolean: null, and strings that do not
\* start with a number.
Malformed == {Null, StrV(<<"a", "b", "c">>), StrV(<<"t", "r", "u", "e">>)}

\* The id field and the integer fields of the class of the model.
IntegerTyped(key) == key \in integerFields(variant) \cup {idKey(variant)}

\* The value an attribute holds after set was called with this input for it.
SetLeaves(key, input) ==
    /\ (IntegerTyped(key) /\ input \in Malformed) => attributes[key] = IntV(0)
    /\ (key \in booleanFields(variant) \ {idKey(variant)} /\ input \in Malformed) =>
           attributes[key] = BoolV(FALSE)

\* C13: after construction and any sequence of set calls (key and value, or a
\* map) and fetches, every attribute the model has that is an integer field
\* or the id field of its class holds an integer, and every boolean field a
\* boolean; input that is malformed (null, a string that is no number) is
\* stored as 0 or false; convertInteger and convertBoolInput return an
\* integer and a boolean for every input, 0 and false for malformed input,
\* and convertBoolInput sends 0 to false, 1 to true and true to true.
C13_AttributesAreTyped ==
    /\ \A key \in DOMAIN attributes :
          /\ IntegerTyped(key) => attributes[key].k = "int"
          /\ key \in booleanFields(variant) \ {idKey(variant)} =>
                 attributes[key].k = "bool"
    /\ (returned.call = "set" /\ returned.key # NullKey) =>
           SetLeaves(returned.key, returned.arg)
    /\ returned.call = "set" =>
           \A key \in DOMAIN returned.json : SetLeaves(key, returned.json[key])
    /\ returned.call = "convertInteger" =>
           /\ returned.value.k = "int"
           /\ returned.arg \in Malformed => returned.value = IntV(0)
    /\ returned.call = "convertBoolInput" =>
           /\ returned.value.k = "bool"
           /\ returned.arg \in Malformed => returned.value = BoolV(FALSE)
           /\ returned.arg = IntV(0) => returned.value = BoolV(FALSE)
           /\ returned.arg = IntV(1) => returned.value = BoolV(TRUE)
           /\ returned.arg = BoolV(TRUE) => returned.value = BoolV(TRUE)

\* A Node whose nid was set to "abc" and holds 0, and whose status, set from
\* a numeric string or a number before, holds true.
C13_Witness ==
    /\ variant = "Node"
    /\ returned.call = "set" /\ returned.key = "nid"
    /\ returned.arg = StrV(<<"a", "b", "c">>)
    /\ DOMAIN attributes = {"nid", "status"}
    /\ attributes["nid"] = IntV(0)
    /\ attributes["status"] = BoolV(TRUE)

\* The values the claim names as true on the output path: a number greater
\* than 0, true, the strings "1" and "true".
TrueOnOutput(v) ==
    \/ v.k = "int" /\ v.n > 0
    \/ v = BoolV(TRUE)
    \/ v = StrV(<<"1">>)
    \/ v = StrV(<<"t", "r", "u", "e">>)

\* C14: in what toJSON returns, every boolean field the model has is true or
\* null, never false or 0: true exactly when the value in the model is a
\* number greater than 0, true, "1" or "true"; the same holds of what
\* convertBoolOutput returns for any value (null for false, 0, null, "0" and
\* every other string).
C14_BooleanOutputIsTrueOrNull ==
    /\ returned.call = "toJSON" =>
           /\ DOMAIN returned.json = DOMAIN attributes
           /\ \A key \in DOMAIN returned.json \cap booleanFields(variant) :
                 /\ returned.json[key] \in {BoolV(TRUE), Null}
                 /\ returned.json[key] = BoolV(TRUE) <=> TrueOnOutput(attributes[key])
    /\ returned.call = "convertBoolOutput" =>
           /\ returned.value \in {BoolV(TRUE), Null}
           /\ returned.value = BoolV(TRUE) <=> TrueOnOutput(returned.arg)

\* toJSON was called on a Node whose status is false and has returned null
\* for it.
C14_Witness ==
    /\ variant = "Node"
    /\ returned.call = "toJSON"
    /\ "status" \in DOMAIN attributes
    /\ attributes["status"] = BoolV(FALSE)
    /\ returned.json["status"] = Null

\* C15: convertInteger applied to what convertInteger returned gives the
\* same value, for every input; true gives 1, false 0, "abc" 0 and "42" 42.
C15_ConvertIntegerIdempotent ==
    returned.call = "convertInteger" =>
        /\ convertInteger(returned.value) = returned.value
        /\ returned.arg = BoolV(TRUE) => returned.value = IntV(1)
        /\ returned.arg = BoolV(FALSE) => returned.value = IntV(0)
        /\ returned.arg = StrV(<<"a", "b", "c">>) => returned.value = IntV(0)
        /\ returned.arg = StrV(<<"4", "2">>) => returned.value = IntV(42)

\* convertInteger was called with "42" and has returned the number 42.
C15_Witness ==
    /\ returned.call = "convertInteger"
    /\ returned.arg = StrV(<<"4", "2">>)
    /\ returned.value = IntV(42)

\* The decimal string of the id the model holds.
IdString == Join(IntToStr(attributes[idKey(variant)].n))

\* The model holds a value for the id field of its class.
HasId == idKey(variant) \in DOMAIN attributes

PathOfId ==
    IF HasId THEN "/" \o entityType(variant) \o "/" \o IdString
    ELSE "/" \o entityType(variant)

InFlight(r) == r.phase \in {"token_sent", "token_ok", "sent"}

\* The step issues a fetch: r2 is the record of a fetch that has just been
\* made, not a later stage of a fetch made before.
FetchIssued(r2) ==
    /\ r2.kind = "fetch"
    /\ New(r2)
    /\ ~\E r \in Calls : r.kind = "fetch" /\ Gone(r)

\* The number of records of this bag that are of this kind and url and
\* satisfy the test.
Count(bag, kind, url0, Test(_)) ==
    BagCardinality([r \in {x \in BagToSet(bag) :
                              x.kind = kind /\ x.url = url0 /\ Test(x)}
                     |-> bag[r]])

IsDone(r) == r.phase = "done"

IsAny(r) == TRUE

\* C18: in the title-update flow a fetch of a model is issued only in the
\* step in which a save of that model completes successfully, one fetch for
\* one save; a save that fails (its request or its token request) is
\* followed by no fetch; a save that has completed never goes back in
\* flight.  So for every model the fetches made so far are no more than the
\* saves that have succeeded, and the save of a flow is over when its fetch
\* is in flight.
C18_FetchOnlyAfterSave ==
    [][/\ \A r2 \in Calls2 :
             FetchIssued(r2) =>
                 /\ InFlight(r2)
                 /\ BagCardinality(ops') = BagCardinality(ops) + 1
                 /\ \E r \in Calls :
                       /\ r.kind = "save" /\ r.url = r2.url
                       /\ r.phase = "sent" /\ Gone(r)
                       /\ New(Resolved(Finished(r, "done"), "response"))
       /\ \A r \in Calls, r2 \in Calls2 :
             (/\ r.kind = "save" /\ Gone(r) /\ New(r2)
              /\ r2.phase \in {"failed", "no_token"}) =>
                 /\ r2.promise = "rejected"
                 /\ \A r3 \in Calls2 : ~FetchIssued(r3)
       /\ \A r \in Calls : (r.kind = "save" /\ ~InFlight(r)) => ~Gone(r)
       /\ \A url0 \in NodeUrls :
             Count(ops', "fetch", url0, IsAny) <= Count(ops', "save", url0, IsDone)
      ]_vars

\* For node 1 the save has succeeded and the fetch is on its way; for node 2
\* the save has failed and there is no fetch.
C18_Witness ==
    /\ \E r1, r2 \in Calls :
         /\ r1.kind = "save" /\ r1.url = NodeUrl(1) /\ r1.phase = "done"
         /\ r2.kind = "fetch" /\ r2.url = NodeUrl(1) /\ r2.phase = "sent"
    /\ \E r3 \in Calls :
         r3.kind = "save" /\ r3.url = NodeUrl(2) /\ r3.phase = "failed"
    /\ \A r \in Calls : r.kind = "fetch" => r.url = NodeUrl(1)

====
